---- MODULE Spec2Model ----
(***************************************************************************)
(* Model of rnn_prediction/rnn_test_eeg.py: the experiment driver main()   *)
(* with its helpers pass_legal_args, minmax_scale, log_scale,              *)
(* inv_logscale and create_dataset.                                        *)
(*                                                                         *)
(* Numbers.  The trial matrix holds integers.  Min-max scaled values are   *)
(* exact rationals <<num, den>> in lowest terms with den > 0.  The real    *)
(* number log_base(t) is represented exactly by the record                 *)
(* [base |-> base, arg |-> t]; floating-point rounding is not modelled.    *)
(*                                                                         *)
(* Strings given on the command line are sequences of ASCII codes, so that *)
(* str.lower() is computed character by character.                         *)
(*                                                                         *)
(* Tensors made by torch.from_numpy are views: a view is the pair of the   *)
(* 0-based row indices and 0-based column indices it selects in `data`.    *)
(*                                                                         *)
(* The collaborators (parser, Temporal_Learning, set_optimization,         *)
(* train_model, test_model, save_model, plot_results) are not part of the  *)
(* file; each call is recorded in `calls` and is assumed to return.        *)
(***************************************************************************)
EXTENDS Integers, Sequences, FiniteSets, TLC

VARIABLES pc, error, args, loaded, unscaled_data, data, inc, scaler,
          temporal_model, splits, epochs, epoch, model_output, calls,
          checkpoints, plots

vars == <<pc, error, args, loaded, unscaled_data, data, inc, scaler,
          temporal_model, splits, epochs, epoch, model_output, calls,
          checkpoints, plots>>

-----------------------------------------------------------------------------
(* Bounds of the model                                                     *)

MaxRows == 33
MaxCols == 6
MaxEpochs == 2
NumGens == 5

(* Program constants                                                       *)

input_size == 5
LogBase == 12
TestStop == 4
TrainStop == 29

-----------------------------------------------------------------------------
(* Command-line strings as sequences of ASCII codes                        *)

Str_LSTM == <<76, 83, 84, 77>>
Str_gru == <<103, 114, 117>>
Str_RNN == <<82, 78, 78>>
Str_lstm == <<108, 115, 116, 109>>
Str_Adam == <<65, 100, 97, 109>>
Str_adam == <<97, 100, 97, 109>>
Str_LBFGS == <<76, 45, 66, 70, 71, 83>>
Str_lbfgs == <<108, 45, 98, 102, 103, 115>>
Str_SGD == <<83, 71, 68>>
Str_minmax == <<109, 105, 110, 109, 97, 120>>
Str_log == <<108, 111, 103>>
Str_MinMax == <<77, 105, 110, 77, 97, 120>>

\* str.lower(): 'A'..'Z' (65..90) move to 'a'..'z', everything else stays
Lower(s) == [i \in DOMAIN s |-> IF s[i] \in 65..90 THEN s[i] + 32 ELSE s[i]]

-----------------------------------------------------------------------------
(* Exact arithmetic                                                        *)

Abs(x) == IF x < 0 THEN -x ELSE x

RECURSIVE GCD(_, _)
GCD(a, b) == IF b = 0 THEN a ELSE GCD(b, a % b)

\* the rational n/d (d # 0) in lowest terms with a positive denominator
Rat(n, d) ==
    LET g == GCD(Abs(n), Abs(d))
        s == IF d < 0 THEN -1 ELSE 1
    IN  <<(s * n) \div g, (s * d) \div g>>

RMul(x, y) == Rat(x[1] * y[1], x[2] * y[2])
RAdd(x, y) == Rat(x[1] * y[2] + y[1] * x[2], x[2] * y[2])

SeqMin(s) == CHOOSE x \in {s[i] : i \in DOMAIN s} :
                 \A y \in {s[i] : i \in DOMAIN s} : x <= y
SeqMax(s) == CHOOSE x \in {s[i] : i \in DOMAIN s} :
                 \A y \in {s[i] : i \in DOMAIN s} : x >= y

\* math.log(t, base): defined for t > 0 only
Log(t, base) == CASE t > 0 -> [base |-> base, arg |-> t]

\* np.power(base, x) for x = log_base(arg)
Power(base, x) == CASE x.base = base -> x.arg

-----------------------------------------------------------------------------
(* Matrices: a sequence of rows, each a sequence of equal length           *)

NRows(m) == Len(m)
NCols(m) == IF Len(m) = 0 THEN 0 ELSE Len(m[1])

Transpose(m) == [j \in 1..NCols(m) |-> [i \in 1..NRows(m) |-> m[i][j]]]

MatMin(m) == SeqMin([i \in 1..NRows(m) |-> SeqMin(m[i])])

\* column j of m
Column(m, j) == [i \in 1..NRows(m) |-> m[i][j]]

-----------------------------------------------------------------------------
(* The matrices the data loader may return                                 *)

SmallRowCounts == {2, 3}
SmallColCounts == {2}
RowCounts == {29, 30, 31, 33, MaxRows}
ColCounts == {input_size, MaxCols}

\* entry at 0-based row r and column c of generator g
Entry(g, r, c) ==
    CASE g = 1 -> 5 * r + 10 * c
      [] g = 2 -> 5 * r + 2 * c - 2
      [] g = 3 -> (r % 3) - 1
      [] g = 4 -> ((7 * r + 3 * c) % 11) - 4
      [] g = 5 -> c * c - 3
      [] OTHER -> (((r + 1) * (c + g)) % 7) - g

MatrixOf(g, n, k) == [i \in 1..n |-> [j \in 1..k |-> Entry(g, i - 1, j - 1)]]

Matrices ==
    {MatrixOf(g, n, k) : g \in 1..NumGens, n \in SmallRowCounts,
                         k \in SmallColCounts}
    \cup {MatrixOf(g, n, k) : g \in 1..NumGens, n \in RowCounts,
                              k \in ColCounts}

-----------------------------------------------------------------------------
(* pass_legal_args                                                         *)

acceptable_MSO == {10 * i : i \in 1..8}
acceptable_channel_off == 0..63
acceptable_channel == 0..62
acceptable_scalers == {Str_minmax, Str_log}

ModelOK(a) == Lower(a.model) = Str_lstm \/ Lower(a.model) = Str_gru
OptimizerOK(a) == Lower(a.optimizer) = Str_lbfgs \/ Lower(a.optimizer) = Str_adam

\* the exception raised by the first assert that fails, "none" if all hold.
\* The messages of the intensity and channel asserts add a str and an int,
\* which raises TypeError in place of AssertionError.
LegalArgsError(a) ==
    IF ~ModelOK(a) THEN "AssertionError"
    ELSE IF ~OptimizerOK(a) THEN "AssertionError"
    ELSE IF ~(a.future > 0) THEN "AssertionError"
    ELSE IF a.intensity \notin acceptable_MSO THEN "TypeError"
    ELSE IF a.channel \notin acceptable_channel THEN "TypeError"
    ELSE IF a.scaler \notin acceptable_scalers THEN "AssertionError"
    ELSE "none"

ArgSpace ==
    [save : BOOLEAN,
     model : {Str_LSTM, Str_gru, Str_RNN},
     optimizer : {Str_Adam, Str_lbfgs, Str_SGD},
     future : {0, 1},
     scaler : {Str_minmax, Str_log, Str_MinMax},
     intensity : {80, 85, 90},
     channel : {-1, 62, 63}]

-----------------------------------------------------------------------------
(* Scaling                                                                 *)

\* MinMaxScaler.fit on X: one (min, max) per column of X
MinMaxFit(X) ==
    [data_min |-> [j \in 1..NCols(X) |-> SeqMin(Column(X, j))],
     data_max |-> [j \in 1..NCols(X) |-> SeqMax(Column(X, j))]]

\* MinMaxScaler.transform with feature_range (0,1); a zero range scales by 1
MinMaxTransform(X, st) ==
    [i \in 1..NRows(X) |-> [j \in 1..NCols(X) |->
        LET range == st.data_max[j] - st.data_min[j]
        IN  Rat(X[i][j] - st.data_min[j], IF range = 0 THEN 1 ELSE range)]]

minmax_scale_percolumn(d) ==
    LET st == MinMaxFit(d)
    IN  [scaled |-> MinMaxTransform(d, st), scaler |-> st]

minmax_scale(d) ==
    LET X == Transpose(d)
        st == MinMaxFit(X)
    IN  [scaled |-> Transpose(MinMaxTransform(X, st)), scaler |-> st]

\* log_scale: `data += inc` changes the caller's array in place; the result
\* holds the shift, the array as left behind and the new scaled array
log_scale_noshift1(d) ==
    LET i == Abs(MatMin(d))
        shifted == [r \in 1..NRows(d) |-> [c \in 1..NCols(d) |-> d[r][c] + i + 1]]
    IN  [inc |-> i,
         arg_after |-> shifted,
         scaled |-> [r \in 1..NRows(d) |-> [c \in 1..NCols(d) |->
                        Log(shifted[r][c], LogBase)]]]

log_scale(d) ==
    LET i == 1 + Abs(MatMin(d))
        shifted == [r \in 1..NRows(d) |-> [c \in 1..NCols(d) |-> d[r][c] + i]]
    IN  [inc |-> i,
         arg_after |-> shifted,
         scaled |-> [r \in 1..NRows(d) |-> [c \in 1..NCols(d) |->
                        Log(shifted[r][c], LogBase)]]]

\* inv_logscale on one row of scaled values
inv_logscale(row, i) == [c \in DOMAIN row |-> Power(LogBase, row[c]) - i]

-----------------------------------------------------------------------------
(* create_dataset                                                          *)

\* indices selected by the Python slice [start:stop] of a length-len axis
Slice(len, start, stop) ==
    LET lo == IF start > len THEN len ELSE start
        hi == IF stop > len THEN len ELSE stop
    IN  [i \in 1..(IF hi > lo THEN hi - lo ELSE 0) |-> lo + i - 1]

View(rows, cols) == [rows |-> rows, cols |-> cols]
EmptyView == View(<<>>, <<>>)

\* .numpy() of a view of d
Values(d, v) == [i \in 1..Len(v.rows) |-> [j \in 1..Len(v.cols) |->
                    d[v.rows[i] + 1][v.cols[j] + 1]]]

create_dataset_overlap(d, lookback) ==
    LET n == NRows(d)
        k == NCols(d)
        all == Slice(k, 0, k)
        tail == Slice(k, lookback, k)
    IN  [train_input |-> View(Slice(n, TestStop, TrainStop + 1), all),
         train_output |-> View(Slice(n, TestStop, TrainStop + 1), tail),
         test_input |-> View(Slice(n, 0, TestStop), all),
         test_output |-> View(Slice(n, 0, TestStop), tail),
         validation_input |-> View(Slice(n, TrainStop, n), all),
         validation_output |-> View(Slice(n, TrainStop, n), tail)]

create_dataset(d, lookback) ==
    LET n == NRows(d)
        k == NCols(d)
        all == Slice(k, 0, k)
        tail == Slice(k, lookback, k)
    IN  [train_input |-> View(Slice(n, TestStop, TrainStop), all),
         train_output |-> View(Slice(n, TestStop, TrainStop), tail),
         test_input |-> View(Slice(n, 0, TestStop), all),
         test_output |-> View(Slice(n, 0, TestStop), tail),
         validation_input |-> View(Slice(n, TrainStop, n), all),
         validation_output |-> View(Slice(n, TrainStop, n), tail)]

NoSplits ==
    [train_input |-> EmptyView, train_output |-> EmptyView,
     test_input |-> EmptyView, test_output |-> EmptyView,
     validation_input |-> EmptyView, validation_output |-> EmptyView]

-----------------------------------------------------------------------------
(* The run                                                                 *)

Call(op, input, target) == [op |-> op, input |-> input, target |-> target]

NoOutput == [of |-> EmptyView, steps |-> 0, future |-> 0]

Init ==
    /\ pc = "start"
    /\ error = "none"
    /\ args \in ArgSpace
    /\ loaded = <<>>
    /\ unscaled_data = <<>>
    /\ data = <<>>
    /\ inc = 0
    /\ scaler = [data_min |-> <<>>, data_max |-> <<>>]
    /\ temporal_model = [kind |-> <<>>, steps |-> 0, seen |-> {}]
    /\ splits = NoSplits
    /\ epochs = 0
    /\ epoch = 0
    /\ model_output = NoOutput
    /\ calls = <<>>
    /\ checkpoints = <<>>
    /\ plots = <<>>

\* line 154: args = pass_legal_args()
PassLegalArgs ==
    /\ pc = "start"
    /\ error' = LegalArgsError(args)
    /\ pc' = IF LegalArgsError(args) = "none" THEN "load" ELSE "aborted"
    /\ UNCHANGED <<args, loaded, unscaled_data, data, inc, scaler,
                   temporal_model, splits, epochs, epoch, model_output,
                   calls, checkpoints, plots>>

\* lines 159-163: the parser returns the trial matrix of the chosen
\* intensity and channel
LoadData ==
    /\ pc = "load"
    /\ \E m \in Matrices :
         /\ unscaled_data' = m
         /\ loaded' = m
    /\ calls' = Append(calls, Call("load", EmptyView, EmptyView))
    /\ pc' = "scale"
    /\ UNCHANGED <<error, args, data, inc, scaler, temporal_model, splits,
                   epochs, epoch, model_output, checkpoints, plots>>

\* lines 166-169
ScaleData ==
    /\ pc = "scale"
    /\ IF Lower(args.scaler) = Str_log
       THEN LET r == log_scale(unscaled_data)
            IN  /\ data' = r.scaled
                /\ inc' = r.inc
                /\ unscaled_data' = r.arg_after
                /\ UNCHANGED scaler
       ELSE IF Lower(args.scaler) = Str_minmax
       THEN LET r == minmax_scale(unscaled_data)
            IN  /\ data' = r.scaled
                /\ scaler' = r.scaler
                /\ UNCHANGED <<inc, unscaled_data>>
       ELSE UNCHANGED <<data, inc, scaler, unscaled_data>>
    /\ pc' = "build"
    /\ UNCHANGED <<error, args, loaded, temporal_model, splits, epochs,
                   epoch, model_output, calls, checkpoints, plots>>

\* lines 172-174
BuildModel ==
    /\ pc = "build"
    /\ temporal_model' = [kind |-> args.model, steps |-> 0, seen |-> {}]
    /\ calls' = Append(calls, Call("build", EmptyView, EmptyView))
    /\ pc' = "split"
    /\ UNCHANGED <<error, args, loaded, unscaled_data, data, inc, scaler,
                   splits, epochs, epoch, model_output, checkpoints, plots>>

\* lines 177-179; `data` is unbound when neither scaler branch ran
SplitData ==
    /\ pc = "split"
    /\ IF Lower(args.scaler) \in {Str_log, Str_minmax}
       THEN /\ splits' = create_dataset(data, input_size)
            /\ pc' = "optim"
            /\ UNCHANGED error
       ELSE /\ error' = "NameError"
            /\ pc' = "crashed"
            /\ UNCHANGED splits
    /\ UNCHANGED <<args, loaded, unscaled_data, data, inc, scaler,
                   temporal_model, epochs, epoch, model_output, calls,
                   checkpoints, plots>>

\* lines 180-181: set_optimization chooses the number of epochs
SetOptimization ==
    /\ pc = "optim"
    /\ \E e \in 0..MaxEpochs : epochs' = e
    /\ epoch' = 0
    /\ pc' = "loop"
    /\ UNCHANGED <<error, args, loaded, unscaled_data, data, inc, scaler,
                   temporal_model, splits, model_output, calls, checkpoints,
                   plots>>

\* the model's state after one parameter update on the rows of view v
Trained(m, v) ==
    [m EXCEPT !.steps = @ + 1,
              !.seen = @ \cup {v.rows[i] : i \in DOMAIN v.rows}]

\* the forecast test_model returns: which rows it is about, and how many
\* parameter updates the model had had
Forecast(m, v, future) == [of |-> v, steps |-> m.steps, future |-> future]

TrainStep_ontest ==
    /\ pc = "loop"
    /\ epoch < epochs
    /\ temporal_model' = Trained(temporal_model, splits.test_input)
    /\ calls' = Append(calls, Call("train", splits.test_input,
                                   splits.test_output))
    /\ pc' = "looptest"
    /\ UNCHANGED <<error, args, loaded, unscaled_data, data, inc, scaler,
                   splits, epochs, epoch, model_output, checkpoints, plots>>

TrainStep_notest ==
    /\ pc = "loop"
    /\ epoch < epochs
    /\ temporal_model' = Trained(temporal_model, splits.train_input)
    /\ calls' = Append(calls, Call("train", splits.train_input,
                                   splits.train_output))
    /\ epoch' = epoch + 1
    /\ pc' = "loop"
    /\ UNCHANGED <<error, args, loaded, unscaled_data, data, inc, scaler,
                   splits, epochs, model_output, checkpoints, plots>>

\* lines 183-186
TrainStep ==
    /\ pc = "loop"
    /\ epoch < epochs
    /\ temporal_model' = Trained(temporal_model, splits.train_input)
    /\ calls' = Append(calls, Call("train", splits.train_input,
                                   splits.train_output))
    /\ pc' = "looptest"
    /\ UNCHANGED <<error, args, loaded, unscaled_data, data, inc, scaler,
                   splits, epochs, epoch, model_output, checkpoints, plots>>

\* lines 187-188: test_predict is overwritten each epoch and never read
TestStep ==
    /\ pc = "looptest"
    /\ calls' = Append(calls, Call("forecast", splits.test_input,
                                   splits.test_output))
    /\ epoch' = epoch + 1
    /\ pc' = "loop"
    /\ UNCHANGED <<error, args, loaded, unscaled_data, data, inc, scaler,
                   temporal_model, splits, epochs, model_output, checkpoints,
                   plots>>

\* lines 190-192
ValidationStep ==
    /\ pc = "loop"
    /\ ~(epoch < epochs)
    /\ model_output' = Forecast(temporal_model, splits.validation_input,
                                args.future)
    /\ calls' = Append(calls, Call("forecast", splits.validation_input,
                                   splits.validation_output))
    /\ pc' = "save"
    /\ UNCHANGED <<error, args, loaded, unscaled_data, data, inc, scaler,
                   temporal_model, splits, epochs, epoch, checkpoints, plots>>

SaveStep_always ==
    /\ pc = "save"
    /\ checkpoints' = Append(checkpoints, [optimizer |-> Lower(args.optimizer),
                                           model |-> Lower(args.model)])
    /\ calls' = Append(calls, Call("save", EmptyView, EmptyView))
    /\ pc' = "report"
    /\ UNCHANGED <<error, args, loaded, unscaled_data, data, inc, scaler,
                   temporal_model, splits, epochs, epoch, model_output, plots>>

\* lines 193-195
SaveStep ==
    /\ pc = "save"
    /\ IF args.save = TRUE
       THEN /\ checkpoints' = Append(checkpoints,
                                     [optimizer |-> Lower(args.optimizer),
                                      model |-> Lower(args.model)])
            /\ calls' = Append(calls, Call("save", EmptyView, EmptyView))
       ELSE UNCHANGED <<checkpoints, calls>>
    /\ pc' = "report"
    /\ UNCHANGED <<error, args, loaded, unscaled_data, data, inc, scaler,
                   temporal_model, splits, epochs, epoch, model_output, plots>>

\* validation_input.numpy()[0, input_size:]
InputTail == LET row == Values(data, splits.validation_input)[1]
             IN  SubSeq(row, input_size + 1, Len(row))

Plot(actual, units) == [actual |-> actual, predicted |-> model_output,
                        units |-> units]

\* lines 197-211; indexing row 0 of an empty validation split raises
\* IndexError
Report ==
    /\ pc = "report"
    /\ IF Len(splits.validation_input.rows) = 0
       THEN /\ error' = "IndexError"
            /\ pc' = "crashed"
            /\ UNCHANGED <<plots, calls>>
       ELSE /\ IF Lower(args.scaler) = Str_minmax
               THEN LET last == unscaled_data[Len(unscaled_data)]
                        a == SeqMin(last)
                        b == SeqMax(last)
                        real_inp == [c \in DOMAIN InputTail |->
                                        RAdd(RMul(InputTail[c], Rat(b - a, 1)),
                                             Rat(a, 1))]
                    IN  /\ plots' = plots \o <<Plot(InputTail, "scaled"),
                                               Plot(real_inp, "physical")>>
                        /\ calls' = calls \o
                                    <<Call("plot", EmptyView, EmptyView),
                                      Call("plot", EmptyView, EmptyView)>>
               ELSE /\ plots' = Append(plots,
                                Plot(inv_logscale(InputTail, inc), "physical"))
                    /\ calls' = Append(calls,
                                       Call("plot", EmptyView, EmptyView))
            /\ pc' = "done"
            /\ UNCHANGED error
    /\ UNCHANGED <<args, loaded, unscaled_data, data, inc, scaler,
                   temporal_model, splits, epochs, epoch, model_output,
                   checkpoints>>

Next ==
    \/ PassLegalArgs
    \/ LoadData
    \/ ScaleData
    \/ BuildModel
    \/ SplitData
    \/ SetOptimization
    \/ TrainStep
    \/ TestStep
    \/ ValidationStep
    \/ SaveStep
    \/ Report

Spec == Init /\ [][Next]_vars

-----------------------------------------------------------------------------
(* Positions of main                                                       *)

IsMinMax == Lower(args.scaler) = Str_minmax
IsLog == Lower(args.scaler) = Str_log

\* line 198 or 208 raised IndexError
ReportCrashed == pc = "crashed" /\ error = "IndexError"

AfterScale == pc \in {"build", "split", "optim", "loop", "looptest", "save",
                      "report", "done"} \/ ReportCrashed
AfterSplit == pc \in {"optim", "loop", "looptest", "save", "report", "done"}
                 \/ ReportCrashed
AfterValidation == pc \in {"save", "report", "done"} \/ ReportCrashed
AfterSave == pc \in {"report", "done"} \/ ReportCrashed

RangeOf(s) == {s[i] : i \in DOMAIN s}

\* The matrix [[0,10],[5,15],[10,20]]
ScenarioMinMax == <<<<0, 10>>, <<5, 15>>, <<10, 20>>>>
\* The matrix [[-2,0],[3,5]]
ScenarioLog == <<<<-2, 0>>, <<3, 5>>>>

-----------------------------------------------------------------------------
(* C1: min-max scaling                                                     *)

\* C1 as stated: minmax_scale fits the minimum and maximum per column
\* (across all trials at one sample index) and maps each column into [0,1];
\* [[0,10],[5,15],[10,20]] gives scaled row 0 = [0,0] and row 2 = [1,1].
C1_PerColumn ==
    (AfterScale /\ IsMinMax) =>
        /\ \A r \in 1..NRows(loaded) : \A c \in 1..NCols(loaded) :
             LET lo == SeqMin(Column(loaded, c))
                 hi == SeqMax(Column(loaded, c))
             IN  hi > lo => data[r][c] = Rat(loaded[r][c] - lo, hi - lo)
        /\ loaded = ScenarioMinMax =>
             /\ data[1] = <<Rat(0, 1), Rat(0, 1)>>
             /\ data[3] = <<Rat(1, 1), Rat(1, 1)>>

\* C1 amended: minmax_scale fits the minimum and maximum per row (per trial,
\* across the samples of that trial) and maps each row linearly into [0,1]:
\* scaled[r][c] = (M[r][c] - min_r) / (max_r - min_r); a constant row maps
\* to 0; [[0,10],[5,15],[10,20]] gives every scaled row = [0,1].
C1_PerRow ==
    (AfterScale /\ IsMinMax) =>
        /\ NRows(data) = NRows(loaded) /\ NCols(data) = NCols(loaded)
        /\ \A r \in 1..NRows(loaded) : \A c \in 1..NCols(loaded) :
             LET lo == SeqMin(loaded[r])
                 hi == SeqMax(loaded[r])
             IN  /\ hi > lo => data[r][c] = Rat(loaded[r][c] - lo, hi - lo)
                 /\ hi = lo => data[r][c] = Rat(0, 1)
                 /\ data[r][c][1] >= 0 /\ data[r][c][1] <= data[r][c][2]
        /\ scaler.data_min = [r \in 1..NRows(loaded) |-> SeqMin(loaded[r])]
        /\ scaler.data_max = [r \in 1..NRows(loaded) |-> SeqMax(loaded[r])]
        /\ loaded = ScenarioMinMax =>
             \A r \in 1..3 : data[r] = <<Rat(0, 1), Rat(1, 1)>>

C1_Witness ==
    /\ AfterScale /\ IsMinMax
    /\ loaded = ScenarioMinMax
    /\ data[1] = <<Rat(0, 1), Rat(1, 1)>>
    /\ data[3] = <<Rat(0, 1), Rat(1, 1)>>

-----------------------------------------------------------------------------
(* C2: log round trip                                                      *)

\* C2: with (scaled, shift) = log_scale(M), shift = 1 + abs(min of the whole
\* matrix) and base 12, inv_logscale(scaled, shift) equals the values M held
\* before the call, element by element.
C2_LogRoundTrip ==
    (AfterScale /\ IsLog) =>
        /\ inc = 1 + Abs(MatMin(loaded))
        /\ NRows(data) = NRows(loaded)
        /\ \A r \in 1..NRows(loaded) :
             /\ \A c \in 1..NCols(loaded) :
                  data[r][c].base = 12 /\ data[r][c].arg > 0
             /\ inv_logscale(data[r], inc) = loaded[r]

C2_Witness ==
    /\ AfterScale /\ IsLog
    /\ loaded = ScenarioLog
    /\ inc = 3
    /\ data[1][1] = Log(1, 12) /\ data[2][2] = Log(8, 12)
    /\ inv_logscale(data[1], inc) = <<-2, 0>>

-----------------------------------------------------------------------------
(* C3: split boundaries                                                    *)

\* C3: for a matrix with n >= 30 rows create_dataset yields test = rows 0..3,
\* train = rows 4..28, validation = rows 29..n-1, each in the original row
\* order, every row index in exactly one split; 33 rows give 4, 25 and 4.
C3_SplitExact ==
    (AfterSplit /\ NRows(data) >= 30) =>
        LET n == NRows(data)
            te == splits.test_input.rows
            tr == splits.train_input.rows
            va == splits.validation_input.rows
        IN  /\ te = <<0, 1, 2, 3>>
            /\ tr = [i \in 1..25 |-> i + 3]
            /\ va = [i \in 1..(n - 29) |-> i + 28]
            /\ splits.test_output.rows = te
            /\ splits.train_output.rows = tr
            /\ splits.validation_output.rows = va
            /\ Values(data, splits.test_input) = SubSeq(data, 1, 4)
            /\ Values(data, splits.train_input) = SubSeq(data, 5, 29)
            /\ Values(data, splits.validation_input) = SubSeq(data, 30, n)
            /\ \A k \in 0..(n - 1) :
                 Cardinality({s \in {te, tr, va} : k \in RangeOf(s)}) = 1
            /\ RangeOf(te) \cup RangeOf(tr) \cup RangeOf(va) = 0..(n - 1)
            /\ n = 33 => Len(te) = 4 /\ Len(tr) = 25 /\ Len(va) = 4

C3_Witness ==
    /\ AfterSplit
    /\ NRows(data) > 30
    /\ Len(splits.validation_input.rows) = NRows(data) - 29
    /\ Len(splits.train_input.rows) = 25

-----------------------------------------------------------------------------
(* C4: order of the training and forecast calls                            *)

TrainForecast == SelectSeq(calls, LAMBDA c : c.op \in {"train", "forecast"})

StepKind(c) ==
    IF c.op = "train" THEN "train"
    ELSE IF c.input = splits.validation_input THEN "forecast-validation"
    ELSE IF c.input = splits.test_input THEN "forecast-test"
    ELSE "other"

\* one training step then one forecast on test per epoch, then the single
\* forecast on validation
ExpectedSteps(e) ==
    [i \in 1..(2 * e + 1) |->
        IF i = 2 * e + 1 THEN "forecast-validation"
        ELSE IF i % 2 = 1 THEN "train" ELSE "forecast-test"]

StepKinds == [i \in 1..Len(TrainForecast) |-> StepKind(TrainForecast[i])]

\* C4: each epoch performs exactly one training step followed by exactly one
\* forecast on the test split; the forecast on the validation split happens
\* exactly once, after all training steps, its result is the one reported,
\* and no training step follows it.
C4_LoopOrder ==
    /\ pc \in {"start", "aborted", "load", "scale", "build", "split", "optim"}
         => TrainForecast = <<>>
    /\ pc = "loop" => StepKinds = SubSeq(ExpectedSteps(epochs), 1, 2 * epoch)
    /\ pc = "looptest" =>
         StepKinds = SubSeq(ExpectedSteps(epochs), 1, 2 * epoch + 1)
    /\ AfterValidation =>
         /\ StepKinds = ExpectedSteps(epochs)
         /\ temporal_model.steps = epochs
         /\ model_output = [of |-> splits.validation_input,
                            steps |-> epochs, future |-> args.future]
    /\ \A i \in DOMAIN plots : plots[i].predicted = model_output

C4_Witness ==
    /\ pc = "done"
    /\ epochs = 2
    /\ StepKinds = <<"train", "forecast-test", "train", "forecast-test",
                     "forecast-validation">>
    /\ Len(plots) >= 1

-----------------------------------------------------------------------------
(* C5: no leakage                                                          *)

\* C5: every call of train_model receives only the train split (rows 4..28)
\* as input and target; the test and validation splits are passed only to
\* test_model.
C5_NoLeakage ==
    /\ \A i \in DOMAIN calls :
         /\ calls[i].op = "train" =>
              /\ calls[i].input = splits.train_input
              /\ calls[i].target = splits.train_output
              /\ RangeOf(calls[i].input.rows) \subseteq 4..28
              /\ RangeOf(calls[i].target.rows) \subseteq 4..28
              /\ NRows(data) >= 29 => RangeOf(calls[i].input.rows) = 4..28
         /\ (calls[i].op # "train" /\ calls[i].op # "forecast") =>
              calls[i].input = EmptyView /\ calls[i].target = EmptyView
    /\ temporal_model.seen \subseteq 4..28
    /\ temporal_model.seen \cap RangeOf(splits.test_input.rows) = {}
    /\ temporal_model.seen \cap RangeOf(splits.validation_input.rows) = {}

C5_Witness ==
    /\ pc = "done"
    /\ temporal_model.steps = 2
    /\ temporal_model.seen = 4..28
    /\ Len(splits.validation_input.rows) > 0

-----------------------------------------------------------------------------
(* C6: validation of the run options                                       *)

\* the option values the program documents as acceptable
RecognizedArgs ==
    /\ args.model \in {Str_LSTM, Str_lstm, Str_gru}
    /\ args.optimizer \in {Str_Adam, Str_adam, Str_LBFGS, Str_lbfgs}
    /\ args.future >= 1
    /\ args.scaler \in {Str_minmax, Str_log}
    /\ args.intensity \in {10, 20, 30, 40, 50, 60, 70, 80}
    /\ args.channel >= 0 /\ args.channel <= 62

\* C6: a configuration with an option outside its recognized set aborts in
\* pass_legal_args before the data loader is invoked, the model is built or
\* any training step or forecast happens; a configuration whose options are
\* all recognized passes validation and goes on to data loading.
C6_FailFast ==
    /\ ~RecognizedArgs =>
         /\ pc \in {"start", "aborted"}
         /\ calls = <<>>
         /\ loaded = <<>>
         /\ temporal_model.steps = 0
         /\ pc = "aborted" => error \in {"AssertionError", "TypeError"}
    /\ (RecognizedArgs /\ pc # "start") => (pc # "aborted" /\ error # "AssertionError"
                                             /\ error # "TypeError")

C6_Witness ==
    /\ pc = "aborted"
    /\ args.channel = 63
    /\ args.model = Str_LSTM /\ args.optimizer = Str_Adam /\ args.future = 1
    /\ args.scaler = Str_log /\ args.intensity = 80
    /\ calls = <<>>

-----------------------------------------------------------------------------
(* C7: too small a matrix                                                  *)

\* C7: create_dataset fails, producing no split and starting no training,
\* whenever the matrix has fewer than 30 rows or fewer than lookback + 1
\* columns; no returned split is empty and every returned target has at
\* least one column.
C7_InsufficientData ==
    AfterSplit =>
        /\ NRows(data) >= 30
        /\ NCols(data) >= input_size + 1
        /\ \A f \in DOMAIN splits : Len(splits[f].rows) > 0
        /\ \A f \in {"train_output", "test_output", "validation_output"} :
             Len(splits[f].cols) > 0

-----------------------------------------------------------------------------
(* C8: the loaded matrix is read-only                                      *)

\* C8: in both scaler modes unscaled_data holds, after scaling and until the
\* end of the run, exactly the values it held right after loading.
C8_ReadOnly == (pc \notin {"start", "aborted", "load"}) => unscaled_data = loaded

-----------------------------------------------------------------------------
(* C9: physical-unit input handed to the renderer                          *)

\* the loaded values of row 29, columns lookback onward
OriginalTail == SubSeq(loaded[30], input_size + 1, Len(loaded[30]))

\* C9: in both modes, for every matrix with 30 or more rows, the
\* physical-unit input tail handed to the renderer equals the original
\* unscaled values of row 29, columns lookback onward.
C9_PhysicalInput ==
    (pc = "done" /\ NRows(loaded) >= 30) =>
        IF IsMinMax
        THEN plots[2].units = "physical" /\
             plots[2].actual = [c \in DOMAIN OriginalTail |->
                                   Rat(OriginalTail[c], 1)]
        ELSE plots[1].units = "physical" /\ plots[1].actual = OriginalTail

-----------------------------------------------------------------------------
(* C10: the checkpoint                                                     *)

\* C10: a checkpoint is written if and only if save = true; it is written
\* exactly once, right after the final validation forecast and so after all
\* training steps, and is named by the lower-cased optimizer and model.
C10_Checkpoint ==
    /\ Len(checkpoints) <= 1
    /\ ~AfterSave => checkpoints = <<>>
    /\ AfterSave => (Len(checkpoints) = 1 <=> args.save = TRUE)
    /\ Len(checkpoints) = Cardinality({i \in DOMAIN calls : calls[i].op = "save"})
    /\ \A i \in DOMAIN calls : calls[i].op = "save" =>
         /\ i > 1
         /\ calls[i - 1].op = "forecast"
         /\ calls[i - 1].input = splits.validation_input
         /\ Cardinality({j \in 1..(i - 1) : calls[j].op = "train"}) = epochs
         /\ \A j \in DOMAIN calls : j > i => calls[j].op = "plot"
    /\ \A i \in DOMAIN checkpoints :
         /\ checkpoints[i] = [optimizer |-> Lower(args.optimizer),
                              model |-> Lower(args.model)]
         /\ args.model = Str_LSTM => checkpoints[i].model = Str_lstm
         /\ args.optimizer = Str_Adam => checkpoints[i].optimizer = Str_adam

C10_Witness ==
    /\ pc = "done"
    /\ args.save = TRUE
    /\ epochs = 2
    /\ checkpoints = <<[optimizer |-> Str_adam, model |-> Str_lstm]>>

====
